---- MODULE Spec2Model ----
(***************************************************************************)
(* Model of package inputiter (cmd/criticality_score/inputiter/iterator.go)*)
(*                                                                         *)
(* One Iter value is driven by a single caller.  Its dynamic type is       *)
(* either sliceIter[T] (a slice and a cursor) or scannerIter (an           *)
(* io.Closer and a bufio.Scanner reading lines from the same resource).    *)
(* Every method of the two types is one action.  bufio.Scanner is modelled *)
(* by what Scan, Text and Err do with the default ScanLines split          *)
(* function; its two size constants are scaled down so that the buffer     *)
(* growth and the token-too-long path are exercised by short inputs.       *)
(***************************************************************************)
EXTENDS Integers, Sequences, FiniteSets, TLC

(* ------------------------------ bounds -------------------------------- *)
MaxLen == 3            \* longest slice handed to a sliceIter
NumVals == 2           \* distinct element values of the slice
MaxInput == 4          \* longest byte stream the resource delivers
MaxChunk == 2          \* most bytes one Read of the resource returns
MaxCalls == 6          \* Next() calls recorded in one run
MaxClose == 2          \* Close() calls recorded in one run
StartBufSize == 2      \* bufio startBufSize (4096), scaled down
MaxScanTokenSize == 3  \* bufio.MaxScanTokenSize (64 * 1024), scaled down

Vals == 1..NumVals
LF == "LF"
CR == "CR"
Bytes == {"a", LF, CR}

RECURSIVE SeqsUpTo(_, _)
SeqsUpTo(S, n) ==
    IF n = 0 THEN {<<>>}
    ELSE LET shorter == SeqsUpTo(S, n - 1)
         IN  shorter \cup {Append(q, x) : q \in {p \in shorter : Len(p) = n - 1}, x \in S}

Min(a, b) == IF a <= b THEN a ELSE b

(* error values *)
nil == "nil"
EOF == "io.EOF"
ErrTooLong == "bufio.ErrTooLong"
ErrRead == "read failure"
ErrClose == "close failure"

VARIABLES
    kind,      \* dynamic type of the Iter: "sliceIter" or "scannerIter"
    values,    \* sliceIter.values
    next,      \* sliceIter.next
    scanner,   \* scannerIter.scanner: the bufio.Scanner's fields
    c,         \* scannerIter.c: the resource as an io.Closer
    rd,        \* the same resource as the scanner's io.Reader
    ret,       \* the last call made on the Iter and what it returned
    results,   \* what each Next() call so far returned, in call order
    items,     \* what Item() stood for after each Next() that returned true
    nClose,    \* Close() calls made on the Iter so far
    panicked   \* a run-time panic has ended the program

vars == <<kind, values, next, scanner, c, rd, ret, results, items, nClose, panicked>>

(* ------------------------------ sliceIter ------------------------------ *)

\* len(i.values)
len(v) == Len(v)

\* a bounds check that takes the last element for out of range
InRange_short(v, n) == n - 1 >= 0 /\ n - 1 < len(v) - 1

\* i.values[i.next-1] is in range (Go indexes from 0, the model from 1)
InRange(v, n) == n - 1 >= 0 /\ n - 1 < len(v)

\* an Item that counts the index from the far end of the slice
sliceItemValue_reversed(v, n) == v[len(v) - n + 1]

\* the value of i.values[i.next-1] when in range
sliceItemValue(v, n) == v[n]

\* an advance that never stops
sliceAdvance_unguarded(v, n) == n + 1

\* an advance that stops at the length, as a guard written with < would
sliceAdvance_strict(v, n) == IF n < len(v) THEN n + 1 ELSE n

\* an advance that starts over once past the end
sliceAdvance_wrap(v, n) == IF n <= len(v) THEN n + 1 ELSE 0

\* an advance whose guard lets the cursor go one step further
sliceAdvance_late(v, n) == IF n <= len(v) + 1 THEN n + 1 ELSE n

\* if i.next <= len(i.values) { i.next++ }
sliceAdvance(v, n) == IF n <= len(v) THEN n + 1 ELSE n

\* a comparison that is off by one
sliceHasItem_strict(v, n) == n < len(v)

\* a comparison that still answers true one past the end
sliceHasItem_loose(v, n) == n <= len(v) + 1

\* return i.next <= len(i.values)
sliceHasItem(v, n) == n <= len(v)

sliceIter_Item ==
    /\ kind = "sliceIter" /\ ~panicked
    /\ IF InRange(values, next)
         THEN /\ ret' = [op |-> "Item", val |-> sliceItemValue(values, next)]
              /\ panicked' = FALSE
         ELSE /\ ret' = [op |-> "Item", val |-> "panic: index out of range"]
              /\ panicked' = TRUE
    /\ UNCHANGED <<kind, values, next, scanner, c, rd, results, items, nClose>>

\* a Next that advances by dropping the consumed head of the slice
sliceIter_Next_consume ==
    /\ kind = "sliceIter" /\ ~panicked
    /\ Len(results) < MaxCalls
    /\ next' = sliceAdvance(values, next)
    /\ values' = IF next >= 1 /\ values # <<>> THEN Tail(values) ELSE values
    /\ LET r == sliceHasItem(values, next')
       IN  /\ ret' = [op |-> "Next", val |-> r]
           /\ results' = Append(results, r)
           /\ items' = items
    /\ UNCHANGED <<kind, scanner, c, rd, nClose, panicked>>

sliceIter_Next ==
    /\ kind = "sliceIter" /\ ~panicked
    /\ Len(results) < MaxCalls
    /\ next' = sliceAdvance(values, next)
    /\ LET r == sliceHasItem(values, next')
       IN  /\ ret' = [op |-> "Next", val |-> r]
           /\ results' = Append(results, r)
           /\ items' = IF r /\ InRange(values, next')
                          THEN Append(items, sliceItemValue(values, next'))
                          ELSE items
    /\ UNCHANGED <<kind, values, scanner, c, rd, nClose, panicked>>

sliceErrValue == nil

sliceIter_Err ==
    /\ kind = "sliceIter" /\ ~panicked
    /\ ret' = [op |-> "Err", val |-> sliceErrValue]
    /\ UNCHANGED <<kind, values, next, scanner, c, rd, results, items, nClose, panicked>>

sliceCloseValue == nil

\* a Close that rewinds the iterator
sliceIter_Close_rewind ==
    /\ kind = "sliceIter" /\ ~panicked
    /\ nClose < MaxClose
    /\ ret' = [op |-> "Close", val |-> sliceCloseValue]
    /\ nClose' = nClose + 1
    /\ next' = 0
    /\ UNCHANGED <<kind, values, scanner, c, rd, results, items, panicked>>

sliceIter_Close ==
    /\ kind = "sliceIter" /\ ~panicked
    /\ nClose < MaxClose
    /\ ret' = [op |-> "Close", val |-> sliceCloseValue]
    /\ nClose' = nClose + 1
    /\ UNCHANGED <<kind, values, next, scanner, c, rd, results, items, panicked>>

(* ----------------------------- bufio.Scanner --------------------------- *)

\* bytes.IndexByte(data, b), 1-based; 0 when b does not occur (Go: -1)
RECURSIVE IndexFrom(_, _, _)
IndexFrom(data, b, i) ==
    IF i > Len(data) THEN 0
    ELSE IF data[i] = b THEN i
    ELSE IndexFrom(data, b, i + 1)

IndexByte(data, b) == IndexFrom(data, b, 1)

\* bufio.dropCR: drops one terminal \r
dropCR(data) ==
    IF Len(data) > 0 /\ data[Len(data)] = CR
      THEN SubSeq(data, 1, Len(data) - 1)
      ELSE data

\* a split function that gives up an unterminated last line
ScanLines_dropLast(data, atEOF) ==
    LET i == IndexByte(data, LF)
    IN  IF i >= 1
          THEN [advance |-> i, has |-> TRUE, token |-> dropCR(SubSeq(data, 1, i - 1))]
          ELSE [advance |-> IF atEOF THEN Len(data) ELSE 0, has |-> FALSE, token |-> <<>>]

\* bufio.ScanLines, the default split function; has = (token != nil)
ScanLines(data, atEOF) ==
    LET i == IndexByte(data, LF)
    IN  IF atEOF /\ Len(data) = 0
          THEN [advance |-> 0, has |-> FALSE, token |-> <<>>]
        ELSE IF i >= 1
          THEN [advance |-> i, has |-> TRUE, token |-> dropCR(SubSeq(data, 1, i - 1))]
        ELSE IF atEOF
          THEN [advance |-> Len(data), has |-> TRUE, token |-> dropCR(data)]
        ELSE [advance |-> 0, has |-> FALSE, token |-> <<>>]

\* s.r.Read(s.buf[s.end:len(s.buf)]) on a resource that delivers the bytes
\* r.data in pieces of at most r.chunk and then ends with EOF or, when
\* r.fails, with a read failure; an eager resource reports the end together
\* with the last bytes
Read(r, space) ==
    LET avail == Len(r.data) - r.pos
        last  == IF r.fails THEN ErrRead ELSE EOF
        n     == Min(Min(r.chunk, space), avail)
    IN  IF avail = 0 THEN [n |-> 0, err |-> last]
        ELSE [n |-> n, err |-> IF r.eager /\ n = avail THEN last ELSE nil]

\* Scanner.setErr: records the first non-EOF error
setErr(cur, e) == IF cur = nil \/ cur = EOF THEN e ELSE cur

\* s.buf[s.start:s.end]: the bytes read and not yet consumed
Unread(s, r) == SubSeq(r.data, r.pos - (s.end - s.start) + 1, r.pos)

\* the buffer size after "Is the buffer full? If so, resize."
newSize(bufLen) == Min(IF bufLen * 2 = 0 THEN StartBufSize ELSE bufLen * 2, MaxScanTokenSize)

\* the buffer is full and may not grow any more
TooLong(bufLen) == bufLen >= MaxScanTokenSize

\* bufio.Scanner.Scan, one pass of its loop "until we have a token": done
\* when Scan returns (ok is what it returns), not done when it goes round
\* again after a Read
ScanPass(s, r) ==
    LET try  == s.end > s.start \/ s.err # nil
        sp   == ScanLines(Unread(s, r), s.err # nil)
        s1   == IF try
                  THEN [s EXCEPT !.start = s.start + sp.advance, !.token = sp.token]
                  ELSE s
        \* shift data to the beginning of the buffer
        s2   == IF s1.start > 0 /\ (s1.end = s1.bufLen \/ s1.start > s1.bufLen \div 2)
                  THEN [s1 EXCEPT !.end = s1.end - s1.start, !.start = 0]
                  ELSE s1
        \* grow the buffer when it is full
        s3   == IF s2.end = s2.bufLen
                  THEN [s2 EXCEPT !.bufLen = newSize(s2.bufLen),
                                  !.end = s2.end - s2.start, !.start = 0]
                  ELSE s2
        got  == Read(r, s3.bufLen - s3.end)
        s4   == [s3 EXCEPT !.end = s3.end + got.n,
                           !.err = IF got.err # nil THEN setErr(s3.err, got.err) ELSE s3.err]
        r4   == [r EXCEPT !.pos = r.pos + got.n]
    IN  IF try /\ sp.has
          THEN [done |-> TRUE, ok |-> TRUE, s |-> s1, r |-> r]
        ELSE IF s1.err # nil
          THEN [done |-> TRUE, ok |-> FALSE, s |-> [s1 EXCEPT !.start = 0, !.end = 0], r |-> r]
        ELSE IF s2.end = s2.bufLen /\ TooLong(s2.bufLen)
          THEN [done |-> TRUE, ok |-> FALSE,
                s |-> [s2 EXCEPT !.err = setErr(s2.err, ErrTooLong)], r |-> r]
        ELSE [done |-> FALSE, ok |-> FALSE, s |-> s4, r |-> r4]

\* bufio.Scanner.Scan: passes of the loop until one returns
RECURSIVE Scan(_, _)
Scan(s, r) ==
    CHOOSE out \in {IF p.done THEN p ELSE Scan(p.s, p.r) : p \in {ScanPass(s, r)}} : TRUE

\* bufio.Scanner.Text
Text(s) == s.token

\* an Err that lets the end-of-input marker through
ScannerErr_raw(s) == s.err

\* bufio.Scanner.Err
ScannerErr(s) == IF s.err = EOF THEN nil ELSE s.err

(* ----------------------------- scannerIter ----------------------------- *)

scannerIter_Item ==
    /\ kind = "scannerIter"
    /\ ret' = [op |-> "Item", val |-> Text(scanner)]
    /\ UNCHANGED <<kind, values, next, scanner, c, rd, results, items, nClose, panicked>>

\* a Next that releases the resource itself once the input is used up
scannerIter_Next_autoclose ==
    /\ kind = "scannerIter"
    /\ c.closed = 0
    /\ Len(results) < MaxCalls
    /\ \E out \in {Scan(scanner, rd)} :
           /\ scanner' = out.s
           /\ rd' = out.r
           /\ ret' = [op |-> "Next", val |-> out.ok]
           /\ results' = Append(results, out.ok)
           /\ items' = IF out.ok THEN Append(items, Text(out.s)) ELSE items
           /\ c' = IF out.ok THEN c ELSE [closed |-> c.closed + 1, last |-> nil]
    /\ UNCHANGED <<kind, values, next, nClose, panicked>>

\* Next is not called on a producer whose resource has been closed
scannerIter_Next ==
    /\ kind = "scannerIter"
    /\ c.closed = 0
    /\ Len(results) < MaxCalls
    /\ \E out \in {Scan(scanner, rd)} :
           /\ scanner' = out.s
           /\ rd' = out.r
           /\ ret' = [op |-> "Next", val |-> out.ok]
           /\ results' = Append(results, out.ok)
           /\ items' = IF out.ok THEN Append(items, Text(out.s)) ELSE items
    /\ UNCHANGED <<kind, values, next, c, nClose, panicked>>

\* an Err that also reports the failure of an earlier Close
scannerIter_Err_sticky ==
    /\ kind = "scannerIter"
    /\ ret' = [op |-> "Err", val |-> IF c.last # nil THEN c.last ELSE ScannerErr(scanner)]
    /\ UNCHANGED <<kind, values, next, scanner, c, rd, results, items, nClose, panicked>>

scannerIter_Err ==
    /\ kind = "scannerIter"
    /\ ret' = [op |-> "Err", val |-> ScannerErr(scanner)]
    /\ UNCHANGED <<kind, values, next, scanner, c, rd, results, items, nClose, panicked>>

\* io.Closer.Close of the resource: counts the call and reports e
CloserClose(cl, e) == [closed |-> cl.closed + 1, last |-> e]

\* a Close that releases the resource but swallows its error
scannerIter_Close_swallow ==
    /\ kind = "scannerIter"
    /\ nClose < MaxClose
    /\ \E e \in {nil, ErrClose} : c' = CloserClose(c, e)
    /\ ret' = [op |-> "Close", val |-> nil]
    /\ nClose' = nClose + 1
    /\ UNCHANGED <<kind, values, next, scanner, rd, results, items, panicked>>

scannerIter_Close ==
    /\ kind = "scannerIter"
    /\ nClose < MaxClose
    /\ \E e \in {nil, ErrClose} :
          /\ c' = CloserClose(c, e)
          /\ ret' = [op |-> "Close", val |-> c'.last]
    /\ nClose' = nClose + 1
    /\ UNCHANGED <<kind, values, next, scanner, rd, results, items, panicked>>

(* ---------------------------- specification ---------------------------- *)

NoCall == [op |-> "none", val |-> nil]
NewScanner == [bufLen |-> 0, start |-> 0, end |-> 0, err |-> nil, token |-> <<>>]
NoReader == [data |-> <<>>, pos |-> 0, chunk |-> 1, fails |-> FALSE, eager |-> FALSE]
NoCloser == [closed |-> 0, last |-> nil]

InitCommon ==
    /\ ret = NoCall
    /\ results = <<>>
    /\ items = <<>>
    /\ nClose = 0
    /\ panicked = FALSE
    /\ c = NoCloser

InitSlice ==
    /\ kind = "sliceIter"
    /\ values \in SeqsUpTo(Vals, MaxLen)
    /\ next = 0
    /\ scanner = NewScanner
    /\ rd = NoReader

InitScanner ==
    /\ kind = "scannerIter"
    /\ values = <<>>
    /\ next = 0
    /\ scanner = NewScanner
    /\ rd \in [data : SeqsUpTo(Bytes, MaxInput), pos : {0}, chunk : 1..MaxChunk,
               fails : BOOLEAN, eager : BOOLEAN]

Init == InitCommon /\ (InitSlice \/ InitScanner)

Next ==
    \/ sliceIter_Item
    \/ sliceIter_Next
    \/ sliceIter_Err
    \/ sliceIter_Close
    \/ scannerIter_Item
    \/ scannerIter_Next
    \/ scannerIter_Err
    \/ scannerIter_Close

Spec == Init /\ [][Next]_vars

(* ------------------------------- helpers ------------------------------- *)

IsSlice == kind = "sliceIter"
IsScanner == kind = "scannerIter"
Last(q) == q[Len(q)]
\* the latest Next() call returned true: Item() is within its precondition
Current == results # <<>> /\ Last(results)
\* the latest Next() call returned false
Stopped == results # <<>> /\ ~Last(results)
\* this step is a call of Next() / of Close()
NextStep == Len(results') = Len(results) + 1
CloseStep == nClose' = nClose + 1
TrueCount(q) == Cardinality({k \in 1..Len(q) : q[k]})

(* -------------------------------- claims ------------------------------- *)

\* C1: on a sliceIter over a slice of length N (N = 0 included) exactly the
\* first N calls of Next() return true, call N+1 and every later call
\* return false, and Err() returns nil whenever it is called.
C1_NextCount ==
    IsSlice =>
        /\ \A k \in 1..Len(results) : results[k] = (k <= Len(values))
        /\ (ret.op = "Err" => ret.val = nil)

C1_Witness ==
    IsSlice /\ Len(values) = 2 /\ results = <<TRUE, TRUE, FALSE, FALSE>> /\ ret.op = "Err"

\* C2: on a sliceIter, Item() called after the k-th Next() that returned
\* true returns element k-1 of the slice (element k counting from 1), and
\* the elements made current so far are the first k elements in slice order,
\* all of them once Next() has returned false.
C2_ItemOrder ==
    IsSlice =>
        /\ (ret.op = "Item" /\ Current => ~panicked /\ ret.val = values[TrueCount(results)])
        /\ items = SubSeq(values, 1, TrueCount(results))
        /\ (Stopped => items = values)

C2_Witness ==
    IsSlice /\ values = <<1, 2, 1>> /\ TrueCount(results) = 2 /\ ret.op = "Item" /\ ret.val = 2

\* C3 as stated: the cursor of a sliceIter stays within 0..N.
C3_CursorAtMostLen == IsSlice => 0 <= next /\ next <= Len(values)

\* C3 amended: the cursor stays within 0..N+1, and cursor = N+1 is the
\* exhausted state: it holds exactly when the latest Next() returned false.
C3_CursorRange ==
    IsSlice =>
        /\ 0 <= next /\ next <= Len(values) + 1
        /\ (next = Len(values) + 1) <=> Stopped

C3_Witness == IsSlice /\ Len(values) = 2 /\ next = 3 /\ Len(results) >= 4 /\ nClose >= 1

(* the lines of a text, by definition: the text cut after every LF, a last
   piece without LF counting when it is not empty, each piece without its LF
   and without one CR before it *)
StripCR(line) ==
    IF line # <<>> /\ Last(line) = CR THEN SubSeq(line, 1, Len(line) - 1) ELSE line

RECURSIVE RefLines(_)
RefLines(text) ==
    LET nl == {i \in 1..Len(text) : text[i] = LF}
        i  == CHOOSE x \in nl : \A y \in nl : x <= y
    IN  IF text = <<>> THEN <<>>
        ELSE IF nl = {} THEN <<StripCR(text)>>
        ELSE <<StripCR(SubSeq(text, 1, i - 1))>> \o RefLines(SubSeq(text, i + 1, Len(text)))

IsPrefix(p, q) == Len(p) <= Len(q) /\ p = SubSeq(q, 1, Len(p))

\* no MaxScanTokenSize bytes in a row of the text are without an LF
ShortLines(text) ==
    \A i \in 1..(Len(text) - MaxScanTokenSize + 1) :
        \E j \in i..(i + MaxScanTokenSize - 1) : text[j] = LF

C4_WitnessTrailingNewline ==
    /\ IsScanner /\ ~rd.fails /\ Stopped
    /\ rd.data = <<"a", LF, "a", LF>>
    /\ items = << <<"a">>, <<"a">> >>

\* C5: a Close() of a scannerIter, after any number of Next() calls and
\* whatever the iteration has come to, calls the resource's Close exactly
\* once and returns what that call returned; it touches nothing else.
C5_CloseOnce ==
    [][IsScanner /\ CloseStep =>
          /\ c'.closed = c.closed + 1
          /\ ret' = [op |-> "Close", val |-> c'.last]
          /\ UNCHANGED <<scanner, rd, results, items>>]_vars

C5_Witness ==
    /\ IsScanner /\ Current /\ Len(results) = 1 /\ Len(RefLines(rd.data)) = 2
    /\ nClose = 1 /\ c.closed = 1 /\ ret = [op |-> "Close", val |-> ErrClose]

\* a read of the resource has failed (only a failed Read records ErrRead)
ReadFailed == scanner.err = ErrRead

\* C6 as stated, its second part: the Next() call during which a read of the
\* resource fails returns false (stated for a resource that reports the
\* failure by a Read of its own, after the last bytes).
C6_FailingReadReturnsFalse ==
    [][IsScanner /\ ~rd.eager /\ NextStep /\ ~ReadFailed /\ ReadFailed' =>
          ret'.val = FALSE]_vars

\* C6 amended: once Next() has returned false, Err() is nil when the input
\* ended cleanly and is the read failure when a read failed; the bytes read
\* before a failure are still delivered as items (by Next() calls that
\* return true while the failure is already recorded); and after a false
\* Next() with a read failure every later Next() returns false and the
\* failure stays the one Err() returns.
C6_Termination ==
    /\ [](IsScanner /\ Stopped /\ scanner.err # ErrTooLong =>
            /\ ScannerErr(scanner) = (IF rd.fails THEN ErrRead ELSE nil)
            /\ (ret.op = "Err" => ret.val = (IF rd.fails THEN ErrRead ELSE nil))
            /\ items = RefLines(rd.data))
    /\ [][IsScanner /\ ReadFailed =>
            /\ ReadFailed'
            /\ (Stopped /\ NextStep => ret'.val = FALSE /\ items' = items)]_vars

C6_Witness ==
    /\ IsScanner /\ rd.fails /\ rd.data = <<"a", LF, "a">>
    /\ results = <<TRUE, TRUE, FALSE, FALSE>>
    /\ ret = [op |-> "Err", val |-> ErrRead]

\* C7: a Close() of a sliceIter, in any state and any number of times,
\* returns nil and changes neither the cursor nor the slice nor anything a
\* later Next() or Item() depends on.
C7_SliceCloseNoWork ==
    [][IsSlice /\ CloseStep =>
          /\ ret' = [op |-> "Close", val |-> nil]
          /\ UNCHANGED <<values, next, results, items, panicked>>]_vars

C7_Witness ==
    /\ IsSlice /\ nClose = 2 /\ Len(values) = 2
    /\ results = <<TRUE, TRUE>> /\ ret = [op |-> "Item", val |-> values[2]]

\* C8 as stated: Item() of a sliceIter called outside its precondition
\* returns some value and does not abort.
C8_ItemNeverAborts == IsSlice /\ ret.op = "Item" => ~panicked

\* C8 amended: Item() of a sliceIter called outside its precondition (before
\* any Next(), or after Next() returned false) aborts with an index out of
\* range panic and returns nothing; within the precondition it never does.
C8_ItemAbortsOutsidePrecondition ==
    IsSlice =>
        /\ (ret.op = "Item" => (panicked <=> ~Current))
        /\ (panicked => ret.op = "Item" /\ ret.val = "panic: index out of range")

C8_Witness == IsSlice /\ panicked /\ Len(values) = 2 /\ results = <<TRUE, TRUE, FALSE>>

C8_WitnessBeforeNext == IsSlice /\ panicked /\ Len(values) = 2 /\ results = <<>>

\* C9 as stated: a Next() of a sliceIter whose cursor equals the length
\* leaves the cursor there and returns false.
C9_NoOpAtLength ==
    [][IsSlice /\ NextStep /\ next = Len(values) =>
          next' = next /\ ret'.val = FALSE]_vars

\* C9 amended: below the length Next() adds one to the cursor and returns
\* true; at the length it adds one, leaving the cursor at length + 1, and
\* returns false; at length + 1 it changes nothing and returns false.
C9_NextSteps ==
    [][IsSlice /\ NextStep =>
          /\ (next < Len(values) => next' = next + 1 /\ ret'.val = TRUE)
          /\ (next = Len(values) => next' = next + 1 /\ ret'.val = FALSE)
          /\ (next = Len(values) + 1 => next' = next /\ ret'.val = FALSE)
          /\ next <= Len(values) + 1
          /\ UNCHANGED <<values, panicked>>]_vars

C9_Witness == IsSlice /\ Len(values) = 1 /\ next = 2 /\ results = <<TRUE, FALSE, FALSE>>

\* C10: on a sliceIter only Next() changes the cursor; Item() returns the
\* element the cursor stands at however often it is called; the cursor
\* never decreases; and once Next() has returned false it does so for good.
C10_OnlyNextMoves ==
    [][IsSlice =>
          /\ (next' # next => NextStep)
          /\ next' >= next
          /\ (ret'.op = "Item" /\ ~panicked' => ret'.val = values[next])
          /\ (Stopped => Stopped' /\ next' = next)]_vars

C10_Witness ==
    /\ IsSlice /\ Len(values) = 1 /\ results = <<TRUE, FALSE, FALSE, FALSE>>
    /\ nClose = 2 /\ ret.op = "Err"

\* C11: no operation of a sliceIter (Next, Item, Err, Close) changes the
\* slice it was built from: length, elements and order stay as they were.
C11_SliceNeverMutated == [][IsSlice => values' = values]_vars

C11_Witness ==
    /\ IsSlice /\ values = <<1, 2, 1>> /\ results = <<TRUE, TRUE, TRUE, FALSE>>
    /\ nClose = 1 /\ ret.op = "Err"

\* C12: a scannerIter closes its resource only in Close(): Next(), Item()
\* and Err() never do, also when Next() returns false at the end of the
\* input or on an error, so the resource's Close has been called as often
\* as Close() was called on the producer.
C12_ClosedOnlyByClose ==
    /\ [](IsScanner => c.closed = nClose)
    /\ [][IsScanner /\ ~CloseStep => c' = c]_vars

C12_Witness ==
    /\ IsScanner /\ Stopped /\ scanner.err = ErrRead
    /\ nClose = 0 /\ c.closed = 0 /\ ret.op = "Err"

C12_WitnessClosedTwice ==
    IsScanner /\ Stopped /\ scanner.err = EOF /\ nClose = 2 /\ c.closed = 2

\* C13: on a scannerIter the outcome of Close() and the outcome of the
\* iteration do not touch each other: Close() returns what the resource's
\* Close returned and releases the resource whatever Err() would return, a
\* Close() step does not change what Err() returns, and Err() returns the
\* scanner's error whatever an earlier Close() returned.
C13_CloseAndErrIndependent ==
    /\ [](IsScanner =>
            /\ (ret.op = "Err" => ret.val = ScannerErr(scanner))
            /\ (ret.op = "Close" => ret.val = c.last))
    /\ [][IsScanner /\ CloseStep =>
            /\ ScannerErr(scanner') = ScannerErr(scanner)
            /\ c'.closed = c.closed + 1]_vars

C13_Witness ==
    /\ IsScanner /\ Stopped /\ ~rd.fails /\ scanner.err = EOF
    /\ c = [closed |-> 1, last |-> ErrClose]
    /\ ret = [op |-> "Err", val |-> nil]

C13_WitnessCloseAfterFailure ==
    /\ IsScanner /\ Stopped /\ scanner.err = ErrRead
    /\ c.closed = 1 /\ ret = [op |-> "Close", val |-> nil]

\* the text has a line of more than MaxScanTokenSize bytes
HasLongLine(text) ==
    \E i \in 1..(Len(text) - MaxScanTokenSize) :
        \A j \in i..(i + MaxScanTokenSize) : text[j] # LF

\* C14: when the input of a scannerIter has a line longer than the maximum
\* token size, then once the token-too-long error is recorded (Err() is
\* non-nil) iteration is over: every later Next() returns false and no
\* further item, so no truncated piece of the line, is delivered.
C14_TooLongIsTerminal ==
    [][IsScanner /\ HasLongLine(rd.data) /\ scanner.err = ErrTooLong /\ NextStep =>
          ret'.val = FALSE /\ items' = items]_vars

\* C15: on a sliceIter, whenever the latest Next() returned true the cursor
\* is within 1..N, so that Item() reads index cursor-1 inside the slice and
\* does not fault; Next() returns true only in such a state.
C15_CurrentIsInBounds ==
    IsSlice /\ Current =>
        /\ 1 <= next /\ next <= Len(values)
        /\ next - 1 \in 0..(Len(values) - 1)
        /\ ~panicked
        /\ (ret.op = "Item" => ret.val \in Vals)

C15_Witness ==
    /\ IsSlice /\ Len(values) = 3 /\ next = 3 /\ results = <<TRUE, TRUE, TRUE>>
    /\ ret.op = "Item"

\* C16: on a sliceIter a Next() call leaves the cursor or adds one to it,
\* never takes it past N+1, and leaves it unchanged once it is N+1, so
\* repeated calls after exhaustion do not grow it.
C16_CursorBounded ==
    [][IsSlice /\ NextStep =>
          /\ next' \in {next, next + 1}
          /\ next' <= Len(values) + 1
          /\ (next = Len(values) + 1 => next' = next)]_vars

C16_Witness ==
    IsSlice /\ Len(values) = 2 /\ next = 3 /\ Len(results) = MaxCalls

====
